---- MODULE Spec2Model ----
(***************************************************************************)
(* Model of the admin route handler                                        *)
(*   POST /admin/orders/{id}/fulfillments/{fulfillment_id}/cancel          *)
(* (packages/medusa/src/api/routes/admin/orders/cancel-fulfillment.ts).    *)
(*                                                                         *)
(* One handler run is modelled.  Every `await` of the handler is a step;   *)
(* every collaborator call may succeed or reject.  The database is a       *)
(* committed store (db, dbInventory) and a transaction-scoped working copy *)
(* (tx) that only services bound with withTransaction(transactionManager)  *)
(* write to.                                                               *)
(***************************************************************************)
EXTENDS Integers, Sequences, FiniteSets

\* ---- bounds of the model ------------------------------------------------
MaxItems == 2
MaxQuantity == 2
MaxOtherWrites == 1

\* ---- value domains --------------------------------------------------------
Null == "null"
Orders == {"order_1", "order_2"}
Variants == {"variant_1", "variant_2"}
Locations == {"loc_1", "loc_2"}
ErrorTypes == {"not_found", "not_allowed"}

\* a fulfillment item with its referenced order item expanded
FulfillmentItems == [variant_id : Variants \cup {Null}, quantity : 1..MaxQuantity]

ItemLists == UNION {[1..n -> FulfillmentItems] : n \in 0..MaxItems}

NoError == [src |-> "none", type |-> "none", item |-> 0]

\* the MedusaError the handler itself throws
NotFoundError == [src |-> "handler", type |-> "NOT_FOUND", item |-> 0]

CollaboratorError(src, type, i) == [src |-> src, type |-> type, item |-> i]

\* a fulfillment not fetched yet
NoFulfillment ==
  [order_id |-> Null, location_id |-> Null, items |-> <<>>, canceled |-> FALSE,
   fetched |-> FALSE]

ZeroInventory == [k \in Variants \X Locations |-> 0]

ClosedTx == [open |-> FALSE, canceled |-> FALSE, inventory |-> ZeroInventory]

NoOrder == [id |-> Null, fulfillment_canceled |-> FALSE, loaded |-> FALSE]

NoResponse == [written |-> FALSE, order |-> NoOrder]

VARIABLES
  id,                \* req.params.id
  inventoryService,  \* TRUE iff req.scope.resolve("inventoryService") is set
  db,                \* committed fulfillment row
  dbInventory,       \* committed inventory levels, by <<variant, location>>
  tx,                \* the open transaction's working copy
  pc,                \* position of the handler
  fulfillment,       \* outer `fulfillment` (line 83)
  txFulfillment,     \* inner `fulfillment` (line 98)
  pending,           \* item indexes whose adjustInventory promise is unsettled
  rejected,          \* item index -> rejection reason (NoError if none)
  calls,             \* collaborator invocations of this run, in order
  raised,            \* errors raised by collaborators in this run
  err,               \* the error the handler ended with
  order,             \* `order` of line 110
  res,               \* the response body written by res.json
  committed,         \* the transaction has committed
  otherWrites        \* writes by other requests so far

vars ==
  <<id, inventoryService, db, dbInventory, tx, pc, fulfillment, txFulfillment,
    pending, rejected, calls, raised, err, order, res, committed, otherWrites>>

Call(op, i, variant, location, quantity) ==
  [op |-> op, item |-> i, variant_id |-> variant, location_id |-> location,
   quantity |-> quantity, committed |-> committed]

Init ==
  /\ id \in Orders
  /\ inventoryService \in BOOLEAN
  /\ db \in [order_id : Orders, location_id : Locations \cup {Null},
             items : ItemLists, canceled : {FALSE}]
  /\ dbInventory = ZeroInventory
  /\ tx = ClosedTx
  /\ pc = "retrieve"
  /\ fulfillment = NoFulfillment
  /\ txFulfillment = NoFulfillment
  /\ pending = {}
  /\ rejected = <<>>
  /\ calls = <<>>
  /\ raised = {}
  /\ err = NoError
  /\ order = NoOrder
  /\ res = NoResponse
  /\ committed = FALSE
  /\ otherWrites = 0

\* fulfillmentService.retrieve(fulfillment_id) outside the transaction
Retrieve ==
  /\ pc = "retrieve"
  /\ calls' = Append(calls, Call("retrieve", 0, Null, Null, 0))
  /\ \/ /\ fulfillment' =
             [order_id |-> db.order_id, location_id |-> db.location_id,
              items |-> db.items, canceled |-> db.canceled, fetched |-> TRUE]
        /\ pc' = "check"
        /\ UNCHANGED <<raised, err>>
     \/ \E t \in ErrorTypes :
          /\ raised' = raised \cup {CollaboratorError("retrieve", t, 0)}
          /\ err' = CollaboratorError("retrieve", t, 0)
          /\ pc' = "failed"
          /\ UNCHANGED fulfillment
  /\ UNCHANGED <<id, inventoryService, db, dbInventory, tx, txFulfillment,
                 pending, rejected, order, res, committed, otherWrites>>

\* a write by another request between the two reads of the fulfillment
\* (line 83 reads outside the transaction, line 98 inside it)
OtherWriter ==
  /\ pc \in {"check", "begin", "cancel"}
  /\ otherWrites < MaxOtherWrites
  /\ \E l \in (Locations \cup {Null}) \ {db.location_id} :
       db' = [db EXCEPT !.location_id = l]
  /\ otherWrites' = otherWrites + 1
  /\ UNCHANGED <<id, inventoryService, dbInventory, tx, pc, fulfillment,
                 txFulfillment, pending, rejected, calls, raised, err, order,
                 res, committed>>

\* a check that only requires the fulfillment to belong to some order
OwnershipMismatch_AnyOrder(f, orderId) == f.order_id = Null

\* line 85: fulfillment.order_id !== id
OwnershipMismatch(f, orderId) == f.order_id # orderId

\* lines 85-90: the ownership check, throwing NOT_FOUND on a mismatch
OwnershipCheck ==
  /\ pc = "check"
  /\ IF OwnershipMismatch(fulfillment, id)
       THEN /\ err' = NotFoundError
            /\ pc' = "failed"
       ELSE /\ pc' = "begin"
            /\ UNCHANGED err
  /\ UNCHANGED <<id, inventoryService, db, dbInventory, tx, fulfillment,
                 txFulfillment, pending, rejected, calls, raised, order, res,
                 committed, otherWrites>>

\* lines 92-93: manager.transaction opens a transaction
BeginTransaction ==
  /\ pc = "begin"
  /\ tx' = [open |-> TRUE, canceled |-> db.canceled, inventory |-> dbInventory]
  /\ pc' = "cancel"
  /\ UNCHANGED <<id, inventoryService, db, dbInventory, fulfillment,
                 txFulfillment, pending, rejected, calls, raised, err, order,
                 res, committed, otherWrites>>

\* a catch inside the callback that rethrows a generic error
ThrowInTx_Wrapped(e) ==
  /\ raised' = raised \cup {e}
  /\ err' = [e EXCEPT !.src = "handler", !.type = "unexpected_state"]
  /\ pc' = "rollback"

\* lines 93-108: a collaborator's rejection e inside the transaction callback
\* is not caught: the callback rejects with e
ThrowInTx(e) ==
  /\ raised' = raised \cup {e}
  /\ err' = e
  /\ pc' = "rollback"

\* cancelFulfillment called on the unbound orderService: its write is
\* committed at once
CancelFulfillment_NoTx ==
  /\ pc = "cancel"
  /\ calls' = Append(calls, Call("cancelFulfillment", 0, Null, Null, 0))
  /\ \/ /\ db' = [db EXCEPT !.canceled = TRUE]
        /\ tx' = [tx EXCEPT !.canceled = TRUE]
        /\ pc' = "refetch"
        /\ UNCHANGED <<raised, err>>
     \/ /\ \E t \in ErrorTypes :
             ThrowInTx(CollaboratorError("cancelFulfillment", t, 0))
        /\ UNCHANGED <<db, tx>>
  /\ UNCHANGED <<id, inventoryService, dbInventory, fulfillment,
                 txFulfillment, pending, rejected, order, res, committed,
                 otherWrites>>

\* cancelFulfillment called again after it rejected
CancelFulfillment_Retry ==
  /\ pc = "cancel"
  /\ calls' = Append(calls, Call("cancelFulfillment", 0, Null, Null, 0))
  /\ \/ /\ tx' = [tx EXCEPT !.canceled = TRUE]
        /\ pc' = "refetch"
        /\ UNCHANGED <<raised, err>>
     \/ /\ \E t \in ErrorTypes :
             /\ raised' = raised \cup {CollaboratorError("cancelFulfillment", t, 0)}
             /\ err' = CollaboratorError("cancelFulfillment", t, 0)
             /\ pc' = IF Len(calls) < 3 THEN "cancel" ELSE "rollback"
        /\ UNCHANGED tx
  /\ UNCHANGED <<id, inventoryService, db, dbInventory, fulfillment,
                 txFulfillment, pending, rejected, order, res, committed,
                 otherWrites>>

\* lines 94-96: orderService.withTransaction(transactionManager)
\*                .cancelFulfillment(fulfillment_id)
CancelFulfillment ==
  /\ pc = "cancel"
  /\ calls' = Append(calls, Call("cancelFulfillment", 0, Null, Null, 0))
  /\ \/ /\ tx' = [tx EXCEPT !.canceled = TRUE]
        /\ pc' = "refetch"
        /\ UNCHANGED <<raised, err>>
     \/ /\ \E t \in ErrorTypes :
             ThrowInTx(CollaboratorError("cancelFulfillment", t, 0))
        /\ UNCHANGED tx
  /\ UNCHANGED <<id, inventoryService, db, dbInventory, fulfillment,
                 txFulfillment, pending, rejected, order, res, committed,
                 otherWrites>>

\* the fulfillment row as the open transaction sees it
ReadInTx ==
  [order_id |-> db.order_id, location_id |-> db.location_id,
   items |-> db.items, canceled |-> tx.canceled, fetched |-> TRUE]

\* the transaction reuses the fulfillment fetched for the ownership check
RefetchedFulfillment_Stale == fulfillment

\* lines 98-100: the inner `fulfillment`, which shadows the outer one
RefetchedFulfillment == ReadInTx

\* lines 98-100: fulfillmentService.withTransaction(transactionManager)
\*                 .retrieve(fulfillment_id, {relations: ["items", "items.item"]})
Refetch ==
  /\ pc = "refetch"
  /\ calls' = Append(calls, Call("retrieveInTx", 0, Null, Null, 0))
  /\ \/ /\ txFulfillment' = RefetchedFulfillment
        /\ pc' = "decide"
        /\ UNCHANGED <<raised, err>>
     \/ /\ \E t \in ErrorTypes :
             ThrowInTx(CollaboratorError("retrieveInTx", t, 0))
        /\ UNCHANGED txFulfillment
  /\ UNCHANGED <<id, inventoryService, db, dbInventory, tx, fulfillment,
                 pending, rejected, order, res, committed, otherWrites>>

\* the condition without the inventory-service test
ShouldAdjust_LocationOnly(f, invService) == f.location_id # Null

\* line 102: fulfillment.location_id && inventoryService
ShouldAdjust(f, invService) == f.location_id # Null /\ invService

\* the arguments of adjustInventory for item i of fulfillment f (lines 127-131)
AdjustCall(f, i) ==
  Call("adjustInventory", i, f.items[i].variant_id, f.location_id,
       f.items[i].quantity)

\* the item indexes of f that reference a product variant (line 126)
VariantItems(f) == {i \in 1..Len(f.items) : f.items[i].variant_id # Null}

\* a map callback without the variant_id test
AdjustCalls_NoVariantTest(f) == [i \in 1..Len(f.items) |-> AdjustCall(f, i)]

\* lines 125-133: the calls the map callback makes, in item order
AdjustCalls(f) ==
  SelectSeq([i \in 1..Len(f.items) |-> AdjustCall(f, i)],
            LAMBDA c : c.variant_id # Null)

\* lines 102-107 and 124-133: every callback of items.map runs up to its
\* await, so all adjustInventory calls are made before any of them settles
AdjustInventoryForCancelledFulfillment ==
  /\ pc = "decide"
  /\ ShouldAdjust(txFulfillment, inventoryService)
  /\ calls' = calls \o AdjustCalls(txFulfillment)
  /\ pending' = {c.item : c \in {AdjustCalls(txFulfillment)[k] :
                                   k \in 1..Len(AdjustCalls(txFulfillment))}}
  /\ rejected' = [i \in 1..Len(txFulfillment.items) |-> NoError]
  /\ pc' = "adjusting"
  /\ UNCHANGED <<id, inventoryService, db, dbInventory, tx, fulfillment,
                 txFulfillment, raised, err, order, res, committed,
                 otherWrites>>

\* line 102, condition false: the callback returns without adjusting
SkipAdjust ==
  /\ pc = "decide"
  /\ ~ShouldAdjust(txFulfillment, inventoryService)
  /\ pc' = "commit"
  /\ UNCHANGED <<id, inventoryService, db, dbInventory, tx, fulfillment,
                 txFulfillment, pending, rejected, calls, raised, err, order,
                 res, committed, otherWrites>>

\* the inventory levels after adjusting variant v at location l by q
Adjusted(inventory, v, l, q) ==
  [inventory EXCEPT ![<<v, l>>] = inventory[<<v, l>>] + q]

\* adjustInventory called on the unbound productVariantInventoryService: its
\* write is committed at once
SettleAdjustment_NoTx(i) ==
  /\ pc = "adjusting"
  /\ i \in pending
  /\ pending' = pending \ {i}
  /\ \/ /\ dbInventory' =
             Adjusted(dbInventory, txFulfillment.items[i].variant_id,
                      txFulfillment.location_id, txFulfillment.items[i].quantity)
        /\ tx' = [tx EXCEPT !.inventory = dbInventory']
        /\ UNCHANGED <<rejected, raised>>
     \/ /\ \E t \in ErrorTypes :
             /\ rejected' =
                  [rejected EXCEPT ![i] = CollaboratorError("adjustInventory", t, i)]
             /\ raised' = raised \cup {CollaboratorError("adjustInventory", t, i)}
        /\ UNCHANGED <<tx, dbInventory>>
  /\ UNCHANGED <<id, inventoryService, db, pc, fulfillment,
                 txFulfillment, calls, err, order, res, committed, otherWrites>>

\* lines 104-105 and 127-131: the adjustInventory promise of item i settles;
\* the service is bound to the transaction manager
SettleAdjustment(i) ==
  /\ pc = "adjusting"
  /\ i \in pending
  /\ pending' = pending \ {i}
  /\ \/ /\ tx' =
             [tx EXCEPT !.inventory =
                Adjusted(tx.inventory, txFulfillment.items[i].variant_id,
                         txFulfillment.location_id,
                         txFulfillment.items[i].quantity)]
        /\ UNCHANGED <<rejected, raised>>
     \/ /\ \E t \in ErrorTypes :
             /\ rejected' =
                  [rejected EXCEPT ![i] = CollaboratorError("adjustInventory", t, i)]
             /\ raised' = raised \cup {CollaboratorError("adjustInventory", t, i)}
        /\ UNCHANGED tx
  /\ UNCHANGED <<id, inventoryService, db, dbInventory, pc, fulfillment,
                 txFulfillment, calls, err, order, res, committed, otherWrites>>

\* the indexes of the rejected promises
RejectedItems == {i \in DOMAIN rejected : rejected[i] # NoError}

\* the reason promiseAll throws: that of the first rejected promise in
\* array order
PromiseAllReason ==
  rejected[CHOOSE i \in RejectedItems : \A j \in RejectedItems : i <= j]

\* line 124: promiseAll resolves or throws once every promise has settled
PromiseAll ==
  /\ pc = "adjusting"
  /\ pending = {}
  /\ IF RejectedItems = {}
       THEN /\ pc' = "commit"
            /\ UNCHANGED err
       ELSE /\ err' = PromiseAllReason
            /\ pc' = "rollback"
  /\ UNCHANGED <<id, inventoryService, db, dbInventory, tx, fulfillment,
                 txFulfillment, pending, rejected, calls, raised, order, res,
                 committed, otherWrites>>

\* line 108: the callback resolved, the transaction commits
Commit ==
  /\ pc = "commit"
  /\ db' = [db EXCEPT !.canceled = tx.canceled]
  /\ dbInventory' = tx.inventory
  /\ tx' = ClosedTx
  /\ committed' = TRUE
  /\ pc' = "reload"
  /\ UNCHANGED <<id, inventoryService, fulfillment, txFulfillment, pending,
                 rejected, calls, raised, err, order, res, otherWrites>>

\* the position of the handler once the rejected transaction is rolled
\* back, when the rejection is swallowed
AfterRollback_Swallow == "reload"

\* lines 93-108: the awaited manager.transaction rethrows, the handler ends
AfterRollback == "failed"

\* line 108: the callback rejected, the transaction rolls back
Rollback ==
  /\ pc = "rollback"
  /\ tx' = ClosedTx
  /\ pc' = AfterRollback
  /\ UNCHANGED <<id, inventoryService, db, dbInventory, fulfillment,
                 txFulfillment, pending, rejected, calls, raised, err, order,
                 res, committed, otherWrites>>

\* the order as the committed store shows it at the time of the call
ReadOrder == [id |-> id, fulfillment_canceled |-> db.canceled, loaded |-> TRUE]

\* the reload made inside the transaction callback: its failure undoes the
\* cancellation and the adjustments
RetrieveWithTotals_InTx ==
  /\ pc = "reload"
  /\ calls' = Append(calls, Call("retrieveWithTotals", 0, Null, Null, 0))
  /\ \/ /\ order' = ReadOrder
        /\ pc' = "respond"
        /\ UNCHANGED <<raised, err, db, dbInventory>>
     \/ \E t \in ErrorTypes :
          /\ raised' = raised \cup {CollaboratorError("retrieveWithTotals", t, 0)}
          /\ err' = CollaboratorError("retrieveWithTotals", t, 0)
          /\ pc' = "failed"
          /\ db' = [db EXCEPT !.canceled = FALSE]
          /\ dbInventory' = ZeroInventory
          /\ UNCHANGED order
  /\ UNCHANGED <<id, inventoryService, tx, fulfillment,
                 txFulfillment, pending, rejected, res, committed, otherWrites>>

\* lines 110-112: orderService.retrieveWithTotals, outside the transaction
RetrieveWithTotals ==
  /\ pc = "reload"
  /\ calls' = Append(calls, Call("retrieveWithTotals", 0, Null, Null, 0))
  /\ \/ /\ order' = ReadOrder
        /\ pc' = "respond"
        /\ UNCHANGED <<raised, err>>
     \/ \E t \in ErrorTypes :
          /\ raised' = raised \cup {CollaboratorError("retrieveWithTotals", t, 0)}
          /\ err' = CollaboratorError("retrieveWithTotals", t, 0)
          /\ pc' = "failed"
          /\ UNCHANGED order
  /\ UNCHANGED <<id, inventoryService, db, dbInventory, tx, fulfillment,
                 txFulfillment, pending, rejected, res, committed, otherWrites>>

\* cleanResponseData(data, fields): data without the excluded fields
CleanResponseData(data, fields) == [k \in (DOMAIN data) \ fields |-> data[k]]

\* line 114: res.json({ order: cleanResponseData(order, []) })
Respond ==
  /\ pc = "respond"
  /\ res' = [written |-> TRUE, order |-> CleanResponseData(order, {})]
  /\ pc' = "done"
  /\ UNCHANGED <<id, inventoryService, db, dbInventory, tx, fulfillment,
                 txFulfillment, pending, rejected, calls, raised, err, order,
                 committed, otherWrites>>

Next ==
  \/ Retrieve
  \/ OtherWriter
  \/ OwnershipCheck
  \/ BeginTransaction
  \/ CancelFulfillment
  \/ Refetch
  \/ AdjustInventoryForCancelledFulfillment
  \/ SkipAdjust
  \/ \E i \in pending : SettleAdjustment(i)
  \/ PromiseAll
  \/ Commit
  \/ Rollback
  \/ RetrieveWithTotals
  \/ Respond

Spec == Init /\ [][Next]_vars

\* ---- definitions used by the properties ----------------------------------

\* the handler has ended: it responded or it threw
Ended == pc \in {"done", "failed"}

\* the positions of the calls of operation op for item i in the call log
CallsOf(op, i) == {k \in DOMAIN calls : calls[k].op = op /\ calls[k].item = i}

\* the positions of all calls of operation op
AllCallsOf(op) == {k \in DOMAIN calls : calls[k].op = op}

\* the collaborator calls made inside the transaction
TxSources == {"cancelFulfillment", "retrieveInTx", "adjustInventory"}

RECURSIVE InventoryAfter(_, _)
\* the levels after the adjustments of the first n items of fulfillment f
InventoryAfter(f, n) ==
  IF n = 0 THEN ZeroInventory
  ELSE IF f.items[n].variant_id # Null /\ f.location_id # Null
         THEN Adjusted(InventoryAfter(f, n - 1), f.items[n].variant_id,
                       f.location_id, f.items[n].quantity)
         ELSE InventoryAfter(f, n - 1)

\* the levels when every variant-bearing item of f has been adjusted
AllAdjusted(f) == InventoryAfter(f, Len(f.items))

\* C1: when the fulfillment fetched first belongs to another order than the
\* path's, the handler ends with NOT_FOUND, and in that run cancelFulfillment
\* and adjustInventory are never called, no transaction is opened and no
\* response is written.
C1_MismatchRejected ==
  (fulfillment.fetched /\ fulfillment.order_id # id) =>
    /\ pc \in {"check", "failed"}
    /\ (pc = "failed" => err = NotFoundError)
    /\ AllCallsOf("cancelFulfillment") = {}
    /\ AllCallsOf("adjustInventory") = {}
    /\ ~tx.open
    /\ ~committed
    /\ ~res.written

C1_Witness ==
  /\ pc = "failed"
  /\ fulfillment.fetched
  /\ fulfillment.order_id # id
  /\ err = NotFoundError

\* C2: when a call inside the transaction fails, the committed cancelled
\* status and inventory levels are those of before the request, at every
\* moment of the run and after the handler has ended.
C2_FailedTxLeavesNoTrace ==
  /\ ~committed => (db.canceled = FALSE /\ dbInventory = ZeroInventory)
  /\ (pc \in {"rollback", "failed"} /\ err.src \in TxSources) => ~committed

C2_Witness ==
  /\ pc = "failed"
  /\ err.src = "adjustInventory"
  /\ txFulfillment.canceled
  /\ ~db.canceled

\* C3: once the transaction has re-fetched a fulfillment with a location_id
\* and an inventory service is configured, adjustInventory has been called
\* exactly once for each item with a variant_id, with that item's variant_id,
\* the fulfillment's location_id and the item's quantity, and not at all for
\* the items without a variant_id.
C3_AdjustOncePerVariantItem ==
  (/\ txFulfillment.fetched
   /\ pc # "decide"
   /\ txFulfillment.location_id # Null
   /\ inventoryService) =>
    /\ \A k \in AllCallsOf("adjustInventory") :
         calls[k].item \in 1..Len(txFulfillment.items)
    /\ \A i \in 1..Len(txFulfillment.items) :
         IF txFulfillment.items[i].variant_id # Null
           THEN /\ Cardinality(CallsOf("adjustInventory", i)) = 1
                /\ \A k \in CallsOf("adjustInventory", i) :
                     /\ calls[k].variant_id = txFulfillment.items[i].variant_id
                     /\ calls[k].location_id = txFulfillment.location_id
                     /\ calls[k].quantity = txFulfillment.items[i].quantity
           ELSE CallsOf("adjustInventory", i) = {}

C3_Witness ==
  /\ pc = "done"
  /\ inventoryService
  /\ txFulfillment.location_id # Null
  /\ Len(txFulfillment.items) = 2
  /\ txFulfillment.items[1].variant_id = Null
  /\ txFulfillment.items[2].variant_id # Null
  /\ Cardinality(AllCallsOf("adjustInventory")) = 1

\* the case of C4: a matching fulfillment re-fetched without location_id, or
\* no inventory service
C4_Case ==
  /\ fulfillment.fetched
  /\ fulfillment.order_id = id
  /\ \/ ~inventoryService
     \/ txFulfillment.fetched /\ txFulfillment.location_id = Null

C5_AllOrNone ==
  /\ Ended =>
       \/ dbInventory = ZeroInventory
       \/ /\ committed
          /\ dbInventory = AllAdjusted(txFulfillment)
  /\ (Ended /\ RejectedItems # {}) => dbInventory = ZeroInventory
  /\ (Ended /\ committed /\ AllCallsOf("adjustInventory") # {}) =>
       dbInventory = AllAdjusted(txFulfillment)

C5_Witness ==
  /\ pc = "failed"
  /\ \E i, j \in VariantItems(txFulfillment) \cap DOMAIN rejected :
       /\ rejected[i] # NoError
       /\ rejected[j] = NoError
  /\ dbInventory = ZeroInventory

\* C6: retrieveWithTotals is called, and the response written, only after
\* the transaction has committed, never when it failed; the order of the
\* response shows the fulfillment cancelled.
C6_ReloadAfterCommit ==
  /\ \A k \in AllCallsOf("retrieveWithTotals") : calls[k].committed
  /\ ~committed => (AllCallsOf("retrieveWithTotals") = {} /\ ~res.written)
  /\ res.written =>
       /\ res.order.loaded
       /\ res.order.id = id
       /\ res.order.fulfillment_canceled
       /\ res.order.fulfillment_canceled = db.canceled

C6_Witness ==
  /\ pc = "done"
  /\ res.written
  /\ res.order.fulfillment_canceled
  /\ ~fulfillment.canceled

C8_CancelRefetchAdjust ==
  /\ \A k \in AllCallsOf("adjustInventory") :
       /\ \E c \in AllCallsOf("cancelFulfillment") :
            \E r \in AllCallsOf("retrieveInTx") : c < r /\ r < k
       /\ txFulfillment.fetched
       /\ txFulfillment.canceled
       /\ calls[k].location_id = db.location_id
       /\ calls[k].variant_id = db.items[calls[k].item].variant_id
  /\ \A r \in AllCallsOf("retrieveInTx") :
       \E c \in AllCallsOf("cancelFulfillment") : c < r
  /\ (txFulfillment.fetched /\ pc # "decide") =>
       (AllCallsOf("adjustInventory") # {} <=>
          /\ db.location_id # Null
          /\ inventoryService
          /\ VariantItems(txFulfillment) # {})

C8_Witness ==
  /\ AllCallsOf("adjustInventory") # {}
  /\ fulfillment.location_id # txFulfillment.location_id
  /\ fulfillment.location_id # Null

\* C9: in one run cancelFulfillment is called at most once and
\* adjustInventory at most once per fulfillment item, also when a step fails.
C9_NoRetry ==
  /\ Cardinality(AllCallsOf("cancelFulfillment")) <= 1
  /\ \A i \in 0..MaxItems + 1 : Cardinality(CallsOf("adjustInventory", i)) <= 1
  /\ Cardinality(AllCallsOf("adjustInventory")) <= Len(db.items)

C9_Witness ==
  /\ pc = "failed"
  /\ err.src = "adjustInventory"
  /\ Cardinality(AllCallsOf("cancelFulfillment")) = 1
  /\ Cardinality(AllCallsOf("adjustInventory")) = 2

\* C10: when retrieveWithTotals fails after the commit, the handler ends with
\* the error and without a response, and the cancellation and the inventory
\* adjustments stay committed.
C10_ReloadFailureKeepsCommit ==
  (pc = "failed" /\ err.src = "retrieveWithTotals") =>
    /\ committed
    /\ ~res.written
    /\ db.canceled
    /\ dbInventory =
         IF AllCallsOf("adjustInventory") # {}
           THEN AllAdjusted(txFulfillment) ELSE ZeroInventory

C10_Witness ==
  /\ pc = "failed"
  /\ err.src = "retrieveWithTotals"
  /\ db.canceled
  /\ dbInventory # ZeroInventory
====
